---- MODULE Spec2Model ----
(***************************************************************************)
(* Model of the dashboard pipeline of mcp_agent/dashboard_agent.py and of  *)
(* its host handler in mcp_agent/main.py: the three stage handlers         *)
(* node_schema, node_execute_sql and node_render_html, the graph that      *)
(* sequences them, and the "Generate Dashboard" handler that invokes it.   *)
(*                                                                         *)
(* Python values are tagged records; a str that carries JSON is a sequence *)
(* of lexical tokens, json.loads is a recursive-descent parser over it and *)
(* json.dumps the matching printer.                                        *)
(***************************************************************************)
EXTENDS Integers, Sequences, FiniteSets, TLC

\* ------------------------------------------------------------------ bounds
\* Longest key_metrics list a model response carries.
MaxMetrics == 2
\* Longest column list the get_schema tool returns.
MaxColumns == 3

\* ------------------------------------------------------- Python values
Str(s) == [t |-> "str", v |-> s]
Text(toks) == [t |-> "text", v |-> toks]
Num(n) == [t |-> "num", v |-> n]
Null == [t |-> "null"]
Arr(seq) == [t |-> "arr", v |-> seq]
Obj(pairs) == [t |-> "obj", v |-> pairs]

IsStr(x) == x.t \in {"str", "text"}
IsDict(x) == x.t = "obj"
IsList(x) == x.t = "arr"

\* Python truthiness: `not x` / `x or y`.
Falsy(x) ==
    CASE x.t = "null" -> TRUE
      [] x.t = "num" -> x.v = 0
      [] x.t = "str" -> x.v = ""
      [] x.t = "text" -> x.v = <<>>
      [] x.t = "arr" -> x.v = <<>>
      [] x.t = "obj" -> x.v = <<>>
      [] OTHER -> FALSE

\* dict: insertion-ordered sequence of <<key, value>> pairs, keys unique.
HasKey(pairs, k) == \E i \in 1..Len(pairs) : pairs[i][1] = k
KeyIndex(pairs, k) == CHOOSE i \in 1..Len(pairs) : pairs[i][1] = k
DictSet(pairs, k, x) ==
    IF HasKey(pairs, k)
    THEN [pairs EXCEPT ![KeyIndex(pairs, k)] = <<k, x>>]
    ELSE Append(pairs, <<k, x>>)
\* d.get(k, default) on a dict d.
DictGet(d, k, default) ==
    IF HasKey(d.v, k) THEN d.v[KeyIndex(d.v, k)][2] ELSE default

\* ------------------------------------------------------- JSON text
\* Lexical tokens of a text.
TokP(s) == [k |-> "p", s |-> s]
TokS(s) == [k |-> "s", s |-> s]
TokN(n) == [k |-> "n", n |-> n]
TokL(s) == [k |-> "l", s |-> s]
TokW(s) == [k |-> "w", s |-> s]
TokQ(toks) == [k |-> "q", v |-> toks]

IsP(toks, i, s) == i <= Len(toks) /\ toks[i].k = "p" /\ toks[i].s = s

ParseFail == [ok |-> FALSE]

RECURSIVE ParseValue(_, _)
RECURSIVE ParseElems(_, _, _)
RECURSIVE ParseMembers(_, _, _)

\* json.loads: one value starting at token i; next is the index after it.
ParseValue(toks, i) ==
    IF i > Len(toks) THEN ParseFail
    ELSE LET tk == toks[i] IN
        CASE tk.k = "s" -> [ok |-> TRUE, val |-> Str(tk.s), next |-> i + 1]
          [] tk.k = "q" -> [ok |-> TRUE, val |-> Text(tk.v), next |-> i + 1]
          [] tk.k = "n" -> [ok |-> TRUE, val |-> Num(tk.n), next |-> i + 1]
          [] tk.k = "l" /\ tk.s = "null" -> [ok |-> TRUE, val |-> Null, next |-> i + 1]
          [] tk.k = "p" /\ tk.s = "[" ->
                IF IsP(toks, i + 1, "]")
                THEN [ok |-> TRUE, val |-> Arr(<<>>), next |-> i + 2]
                ELSE ParseElems(toks, i + 1, <<>>)
          [] tk.k = "p" /\ tk.s = "{" ->
                IF IsP(toks, i + 1, "}")
                THEN [ok |-> TRUE, val |-> Obj(<<>>), next |-> i + 2]
                ELSE ParseMembers(toks, i + 1, <<>>)
          [] OTHER -> ParseFail

\* The result r of the value parsed and the list or dict acc2 grown by it are
\* bound as members of one-element sets: each is evaluated once, however
\* often what follows uses it.
ParseElems(toks, i, acc) ==
    CHOOSE out \in
        { IF ~r.ok THEN ParseFail
          ELSE CHOOSE res \in
              { IF IsP(toks, r.next, ",") THEN ParseElems(toks, r.next + 1, acc2)
                ELSE IF IsP(toks, r.next, "]")
                     THEN [ok |-> TRUE, val |-> Arr(acc2), next |-> r.next + 1]
                ELSE ParseFail
                : acc2 \in {Append(acc, r.val)} } : TRUE
          : r \in {ParseValue(toks, i)} } : TRUE

ParseMembers(toks, i, acc) ==
    IF ~(i <= Len(toks) /\ toks[i].k = "s" /\ IsP(toks, i + 1, ":")) THEN ParseFail
    ELSE CHOOSE out \in
        { IF ~r.ok THEN ParseFail
          ELSE CHOOSE res \in
              { IF IsP(toks, r.next, ",") THEN ParseMembers(toks, r.next + 1, acc2)
                ELSE IF IsP(toks, r.next, "}")
                     THEN [ok |-> TRUE, val |-> Obj(acc2), next |-> r.next + 1]
                ELSE ParseFail
                : acc2 \in {DictSet(acc, toks[i].s, r.val)} } : TRUE
          : r \in {ParseValue(toks, i + 2)} } : TRUE

\* json.loads(text): the whole text must be one value.
Loads(toks) ==
    LET r == ParseValue(toks, 1) IN
    IF r.ok /\ r.next = Len(toks) + 1 THEN [ok |-> TRUE, val |-> r.val] ELSE ParseFail

RECURSIVE Dumps(_)
RECURSIVE DumpElems(_, _)
RECURSIVE DumpMembers(_, _)

\* json.dumps(x)
Dumps(x) ==
    CASE x.t = "str" -> <<TokS(x.v)>>
      [] x.t = "text" -> <<TokQ(x.v)>>
      [] x.t = "num" -> <<TokN(x.v)>>
      [] x.t = "null" -> <<TokL("null")>>
      [] x.t = "arr" -> <<TokP("[")>> \o DumpElems(x.v, 1) \o <<TokP("]")>>
      [] x.t = "obj" -> <<TokP("{")>> \o DumpMembers(x.v, 1) \o <<TokP("}")>>

DumpElems(seq, i) ==
    IF i > Len(seq) THEN <<>>
    ELSE Dumps(seq[i]) \o (IF i < Len(seq) THEN <<TokP(",")>> ELSE <<>>) \o DumpElems(seq, i + 1)

DumpMembers(pairs, i) ==
    IF i > Len(pairs) THEN <<>>
    ELSE <<TokS(pairs[i][1]), TokP(":")>> \o Dumps(pairs[i][2])
         \o (IF i < Len(pairs) THEN <<TokP(",")>> ELSE <<>>) \o DumpMembers(pairs, i + 1)

\* The tokens of a str handed to json.loads.
Tokens(x) == IF x.t = "text" THEN x.v ELSE <<TokW(x.v)>>

\* ------------------------------------------------------- schema planner
\* `k in x`: key of a dict, element of a list, substring of a str (the strs
\* of this model are words none of which contains another, so a str contains
\* k exactly when it is k); any other operand raises TypeError.
Contains(x, k) ==
    CASE x.t = "obj" -> [ok |-> TRUE, val |-> HasKey(x.v, k)]
      [] x.t = "arr" -> [ok |-> TRUE,
                         val |-> \E i \in 1..Len(x.v) : x.v[i].t = "str" /\ x.v[i].v = k]
      [] x.t = "str" -> [ok |-> TRUE, val |-> x.v = k]
      [] x.t = "text" -> [ok |-> TRUE,
                          val |-> \E i \in 1..Len(x.v) : x.v[i].k \in {"s", "w"} /\ x.v[i].s = k]
      [] OTHER -> [ok |-> FALSE]

\* schema_list = [(json.loads(item) if isinstance(item, str) else item) for item in wrapped]
RECURSIVE NormalizeItems(_, _)
NormalizeItems(items, i) ==
    IF i > Len(items) THEN [ok |-> TRUE, val |-> <<>>]
    ELSE LET rest == NormalizeItems(items, i + 1)
             one == IF IsStr(items[i]) THEN Loads(Tokens(items[i]))
                    ELSE [ok |-> TRUE, val |-> items[i]]
         IN IF one.ok /\ rest.ok THEN [ok |-> TRUE, val |-> <<one.val>> \o rest.val]
            ELSE [ok |-> FALSE]

NormalizeSchema(wrapped) ==
    IF IsList(wrapped) THEN NormalizeItems(wrapped.v, 1) ELSE [ok |-> FALSE]

\* schema_list[:2]
FirstTwo(seq) == SubSeq(seq, 1, IF Len(seq) < 2 THEN Len(seq) ELSE 2)

IsColumn(c) == IsDict(c) /\ HasKey(c.v, "name") /\ HasKey(c.v, "dtype")

\* The sanity checks on schema_list: "" when they pass, else the message raised.
SchemaCheck(schema_list) ==
    IF schema_list = <<>> THEN "Empty schema returned"
    ELSE IF ~(\A i \in 1..Len(FirstTwo(schema_list)) : IsColumn(FirstTwo(schema_list)[i]))
         THEN "Schema items missing required keys after normalization"
    ELSE ""

RequiredKeys == <<"key_metrics", "dashboard_components">>

\* The loop `for k in (...): if k not in spec: raise`: "" when both keys pass.
RECURSIVE ValidateKeys(_, _)
ValidateKeys(spec, i) ==
    IF i > Len(RequiredKeys) THEN ""
    ELSE LET c == Contains(spec, RequiredKeys[i]) IN
         IF ~c.ok THEN "TypeError: argument is not iterable"
         ELSE IF ~c.val THEN "Analysis JSON missing required key"
         ELSE ValidateKeys(spec, i + 1)

\* MinimalSpec handing the whole analysis on.
MinimalSpecUnfiltered(spec) == spec

MinimalSpec(spec) ==
    Obj(<< <<"key_metrics", DictGet(spec, "key_metrics", Arr(<<>>))>>,
           <<"dashboard_components", DictGet(spec, "dashboard_components", Null)>> >>)

Failed(details) == [ok |-> FALSE, details |-> details]

\* node_schema from the model's answer on: the plan text handed off, or the
\* message of the exception raised.
PlanFromContent(content) ==
    IF Falsy(content) THEN Failed("LLM returned empty content for schema analysis.")
    ELSE LET parsed == Loads(Tokens(content)) IN
         IF ~parsed.ok THEN Failed("Failed to parse analysis JSON")
         ELSE LET bad == ValidateKeys(parsed.val, 1) IN
              IF bad # "" THEN Failed(bad)
              ELSE IF ~IsDict(parsed.val) THEN Failed("AttributeError: no attribute get")
              ELSE [ok |-> TRUE, text |-> Text(Dumps(MinimalSpec(parsed.val)))]

\* ------------------------------------------------------- metric executor
\* What `for m in key_metrics` iterates over: the elements of a list, the keys
\* of a dict, the characters of a str (one stand-in str for a non-empty one);
\* None and numbers raise TypeError.
RECURSIVE KeysOf(_, _)
KeysOf(pairs, i) ==
    IF i > Len(pairs) THEN <<>> ELSE <<Str(pairs[i][1])>> \o KeysOf(pairs, i + 1)

IterItems(x) ==
    CASE x.t = "arr" -> [ok |-> TRUE, val |-> x.v]
      [] x.t = "obj" -> [ok |-> TRUE, val |-> KeysOf(x.v, 1)]
      [] x.t = "str" -> [ok |-> TRUE, val |-> IF x.v = "" THEN <<>> ELSE <<Str(x.v)>>]
      [] x.t = "text" -> [ok |-> TRUE, val |-> IF x.v = <<>> THEN <<>> ELSE <<Str("char")>>]
      [] OTHER -> [ok |-> FALSE]

\* m[k]: KeyError on a dict without k, TypeError on anything that is no dict.
Subscript(m, k) ==
    IF IsDict(m) /\ HasKey(m.v, k) THEN [ok |-> TRUE, val |-> DictGet(m, k, Null)]
    ELSE [ok |-> FALSE, details |-> IF IsDict(m) THEN "KeyError" ELSE "TypeError"]

RecordKeys == <<"metric", "description", "visualization_type">>

\* MetricRecord with the description taken from the metric's title.
MetricRecordMislabelled(m, data) ==
    Obj(<< <<"metric", Subscript(m, "metric").val>>,
           <<"description", Subscript(m, "metric").val>>,
           <<"visualization_type", Subscript(m, "visualization_type").val>>,
           <<"data", IF Falsy(data) THEN Arr(<<>>) ELSE data>> >>)

\* The dict appended to results for metric m and the tool's answer data.
MetricRecord(m, data) ==
    Obj(<< <<"metric", Subscript(m, "metric").val>>,
           <<"description", Subscript(m, "description").val>>,
           <<"visualization_type", Subscript(m, "visualization_type").val>>,
           <<"data", IF Falsy(data) THEN Arr(<<>>) ELSE data>> >>)

CanRecord(m) == \A i \in 1..Len(RecordKeys) : Subscript(m, RecordKeys[i]).ok

\* ExecArgs with the location of a fixed file instead of the run's.
ExecArgsFixedLocation(path, sql) ==
    Obj(<< <<"file_locations", Arr(<<Str("data.csv")>>)>>, <<"query", sql>>,
           <<"file_type", Str("csv")>> >>)

ExecArgs(path, sql) ==
    Obj(<< <<"file_locations", Arr(<<Str(path)>>)>>, <<"query", sql>>,
           <<"file_type", Str("csv")>> >>)

SchemaArgs(path) ==
    Obj(<< <<"file_location", Str(path)>>, <<"file_type", Str("csv")>> >>)

\* The two chat turns of a model call.
LlmArgs(system, user) ==
    Obj(<< <<"system", Str(system)>>, <<"user", Text(Dumps(user))>> >>)

PlanPayload(schema_list, question) ==
    Obj(<< <<"schema", Arr(schema_list)>>, <<"question", question>> >>)

RenderPayload(last_messages) == Obj(<< <<"metrics", last_messages>> >>)

HumanMessage(content) == [role |-> "human", content |-> content]
AIMessage(content) == [role |-> "ai", content |-> content]

\* ------------------------------------------------------- inputs
Runs == {1, 2}

\* Tool bindings handed to a run, by tool name.
ToolSets ==
    { {"get_schema", "execute_polars_sql"}, {"execute_polars_sql"}, {"get_schema"} }

RECURSIVE SeqsUpTo(_, _)
\* The sequences over set S of length at most n.
SeqsUpTo(S, n) ==
    IF n = 0 THEN {<<>>}
    ELSE LET shorter == SeqsUpTo(S, n - 1) IN
         shorter \cup {Append(q, e) : q \in {z \in shorter : Len(z) = n - 1}, e \in S}

Metric(name, sql) ==
    Obj(<< <<"metric", Str(name)>>, <<"description", Str("about " \o name)>>,
           <<"visualization_type", Str("bar_chart")>>,
           <<"visualization_rationale", Str("compare")>>, <<"sql", Str(sql)>> >>)

\* A metric entry without its description.
MetricNoDescription ==
    Obj(<< <<"metric", Str("m3")>>, <<"visualization_type", Str("table")>>,
           <<"sql", Str("SELECT 3 FROM self")>> >>)

MetricPool ==
    { Metric("m1", "SELECT 1 FROM self"), Metric("m2", "SELECT 2 FROM self"),
      MetricNoDescription }

Components == Arr(<<Str("kpi_cards")>>)

FullSpec(key_metrics) ==
    Obj(<< <<"domain", Str("sports")>>, <<"key_metrics", key_metrics>>,
           <<"dashboard_components", Components>> >>)

\* What the question box can hold: plain words, and texts that are JSON.
Questions ==
    { Str("trend over age"),
      Text(<<TokP("{"), TokP("}")>>),
      Text(Dumps(Obj(<< <<"key_metrics", Arr(<<Metric("mine", "SELECT secret FROM self")>>)>> >>))) }

GoodColumn == Obj(<< <<"name", Str("Age")>>, <<"dtype", Str("int")>> >>)
ColumnNoDtype == Obj(<< <<"name", Str("Age")>> >>)

\* Items of a get_schema answer: column dicts, JSON-encoded or not, and junk.
SchemaItems ==
    { GoodColumn, Text(Dumps(GoodColumn)), ColumnNoDtype, Str("oops"), Text(<<TokN(7)>>) }

Raise == [raised |-> TRUE]
Return(x) == [raised |-> FALSE, val |-> x]

GetSchemaResponses ==
    {Raise, Return(Null)} \cup {Return(Arr(q)) : q \in SeqsUpTo(SchemaItems, MaxColumns)}

\* Answers of the model to the schema-analysis call.
PlanResponses ==
    {Raise, Return(Str("")), Return(Str("Sorry")), Return(Text(<<TokP("{"), TokS("key_metrics")>>))}
    \cup {Return(Text(Dumps(FullSpec(Arr(q))))) : q \in SeqsUpTo(MetricPool, MaxMetrics)}
    \cup {Return(Text(Dumps(x))) : x \in
            { FullSpec(Str("")), FullSpec(Null), FullSpec(Obj(<<>>)),
              Obj(<< <<"key_metrics", Arr(<<>>)>> >>),
              Obj(<< <<"dashboard_components", Components>> >>),
              Arr(<<Str("key_metrics"), Str("dashboard_components")>>),
              Str("key_metrics"), Num(5), Null }}

Row == Obj(<< <<"Age", Num(30)>> >>)

\* Answers of execute_polars_sql to one query.
QueryResponses == {Raise, Return(Null), Return(Arr(<<>>)), Return(Arr(<<Row>>))}

\* Answers of the model to the render call.
RenderResponses == {Raise, Return(Str("")), Return(Str("<html>"))}

\* Stub answers for two requests served by one process: a schema of one
\* column or a failure, and an analysis with two metrics, with none, or none
\* at all.
StubSchemaResponses == {Raise, Return(Arr(<<GoodColumn>>))}

StubPlanResponses ==
    { Raise, Return(Str("")),
      Return(Text(Dumps(FullSpec(Arr(<<>>))))),
      Return(Text(Dumps(FullSpec(Arr(<<Metric("m1", "SELECT 1 FROM self"),
                                       Metric("m2", "SELECT 2 FROM self")>>))))) }

\* ------------------------------------------------------- state
VARIABLES
    active,         \* the runs started by the host
    pc,             \* per run: where the graph or the running handler stands
    messages,       \* per run: PipelineState.messages
    csv_file_path,  \* per run: PipelineState.csv_file_path
    tool,           \* per run: PipelineState.tool
    ret,            \* per run: the value the last handler returned
    key_metrics,    \* per run: node_execute_sql's items of key_metrics
    results,        \* per run: node_execute_sql's results
    calls,          \* per run: the external calls made, oldest first
    started,        \* per run: the handlers started, oldest first
    exc,            \* per run: the exception that ended the run, "" if none
    host            \* per run: what the host displayed

vars == <<active, pc, messages, csv_file_path, tool, ret, key_metrics, results,
          calls, started, exc, host>>

NoRet == [kind |-> "none"]
Update(msgs) == [kind |-> "messages", messages |-> msgs]
ErrorValue(details) == [kind |-> "error", error |-> "node_schema_failed", details |-> details]
NoHost == [kind |-> "none"]

\* An external call: its arguments, whether it is pending, returned or raised,
\* and what it returned.
Call(fn, args) == [fn |-> fn, args |-> args, st |-> "pending", out |-> Null]
\* The log with its last call settled by the answer resp.
Settle(log, resp) ==
    [log EXCEPT ![Len(log)] =
        [@ EXCEPT !.st = IF resp.raised THEN "raised" ELSE "returned",
                  !.out = IF resp.raised THEN Null ELSE resp.val]]

\* init_state of the Generate Dashboard handler, for the runs in A with their
\* uploads saved under the paths in D.
InitRuns(A, D) ==
    /\ active = A
    /\ pc = [r \in Runs |-> IF r \in A THEN "planning" ELSE "off"]
    /\ \E q \in [A -> Questions] :
          messages = [r \in Runs |-> IF r \in A THEN <<HumanMessage(q[r])>> ELSE <<>>]
    /\ \E f \in [A -> D] :
          csv_file_path = [r \in Runs |-> IF r \in A THEN f[r] ELSE ""]
    /\ \E ts \in ToolSets : tool = [r \in Runs |-> ts]
    /\ ret = [r \in Runs |-> NoRet]
    /\ key_metrics = [r \in Runs |-> <<>>]
    /\ results = [r \in Runs |-> <<>>]
    /\ calls = [r \in Runs |-> <<>>]
    /\ started = [r \in Runs |-> <<>>]
    /\ exc = [r \in Runs |-> ""]
    /\ host = [r \in Runs |-> NoHost]

Set(f, r, val) == [f EXCEPT ![r] = val]
Last(seq) == seq[Len(seq)]

\* A handler raised: the graph stops and pipeline.ainvoke raises.
Abort(r, e) ==
    /\ pc' = Set(pc, r, "failed")
    /\ exc' = Set(exc, r, e)

\* ------------------------------------------------------- node_schema
\* What get_schema and the schema-analysis call may answer: anything of the
\* pools while one request is served, the stubs' answers while two are.
SchemaAnswers == IF active = {1} THEN GetSchemaResponses ELSE StubSchemaResponses
PlanAnswers == IF active = {1} THEN PlanResponses ELSE StubPlanResponses

\* node_schema up to its first await.
node_schema_begin(r) ==
    /\ pc[r] = "planning"
    /\ started' = Set(started, r, Append(started[r], "schema"))
    /\ IF "get_schema" \notin tool[r]
       THEN /\ ret' = Set(ret, r, ErrorValue("get_schema tool not found"))
            /\ pc' = Set(pc, r, "schema:ret")
            /\ UNCHANGED calls
       ELSE /\ calls' = Set(calls, r,
                    Append(calls[r], Call("get_schema", SchemaArgs(csv_file_path[r]))))
            /\ pc' = Set(pc, r, "schema:get_schema")
            /\ UNCHANGED ret
    /\ UNCHANGED <<active, messages, csv_file_path, tool, key_metrics, results, exc, host>>

\* From the answer of get_schema to the model's input, or the exception raised.
PayloadFromSchema(resp, user_question) ==
    IF resp.raised THEN Failed("get_schema call failed")
    ELSE LET norm == NormalizeSchema(resp.val) IN
         IF ~norm.ok THEN Failed("Failed to parse schema items")
         ELSE IF SchemaCheck(norm.val) # "" THEN Failed(SchemaCheck(norm.val))
         ELSE [ok |-> TRUE, payload |-> PlanPayload(norm.val, user_question)]

\* get_schema.ainvoke resumes: normalize, check, call the model.
node_schema_on_schema(r) ==
    /\ pc[r] = "schema:get_schema"
    /\ \E resp \in SchemaAnswers :
          LET out == PayloadFromSchema(resp, Last(messages[r]).content)
              log == Settle(calls[r], resp)
          IN IF out.ok
             THEN /\ calls' = Set(calls, r, Append(log,
                        Call("llm", LlmArgs("INSTRUCTIONS_CSV_ANALYSIS_AND_SCHEMA", out.payload))))
                  /\ pc' = Set(pc, r, "schema:llm")
                  /\ UNCHANGED ret
             ELSE /\ calls' = Set(calls, r, log)
                  /\ ret' = Set(ret, r, ErrorValue(out.details))
                  /\ pc' = Set(pc, r, "schema:ret")
    /\ UNCHANGED <<active, messages, csv_file_path, tool, key_metrics, results, started,
                   exc, host>>


\* node_schema_on_analysis with the model call outside the try block.
node_schema_on_analysis_uncaught(r) ==
    /\ pc[r] = "schema:llm"
    /\ \E resp \in PlanAnswers :
          LET out == PlanFromContent(resp.val) IN
          /\ calls' = Set(calls, r, Settle(calls[r], resp))
          /\ IF resp.raised
             THEN Abort(r, "model call failed") /\ UNCHANGED ret
             ELSE /\ ret' = Set(ret, r, IF out.ok THEN Update(<<AIMessage(out.text)>>)
                                        ELSE ErrorValue(out.details))
                  /\ pc' = Set(pc, r, "schema:ret")
                  /\ UNCHANGED exc
    /\ UNCHANGED <<active, messages, csv_file_path, tool, key_metrics, results, started, host>>

\* llm.ainvoke resumes: validate the analysis and return the plan message.
node_schema_on_analysis(r) ==
    /\ pc[r] = "schema:llm"
    /\ \E resp \in PlanAnswers :
          LET out == IF resp.raised THEN Failed("model call failed")
                     ELSE PlanFromContent(resp.val)
          IN /\ calls' = Set(calls, r, Settle(calls[r], resp))
             /\ ret' = Set(ret, r, IF out.ok THEN Update(<<AIMessage(out.text)>>)
                                   ELSE ErrorValue(out.details))
    /\ pc' = Set(pc, r, "schema:ret")
    /\ UNCHANGED <<active, messages, csv_file_path, tool, key_metrics, results, started,
                   exc, host>>


node_schema(r) ==
    node_schema_begin(r) \/ node_schema_on_schema(r) \/ node_schema_on_analysis(r)

\* ------------------------------------------------------- node_execute_sql
\* The head of the for loop once `done` records exist: issue the next query,
\* raise on an entry without sql, or leave the loop.
LoopHead(items, done) ==
    IF Len(done) >= Len(items) THEN [kind |-> "return"]
    ELSE LET sql == Subscript(items[Len(done) + 1], "sql") IN
         IF sql.ok THEN [kind |-> "call", sql |-> sql.val]
         ELSE [kind |-> "raise", exc |-> sql.details]

\* RunLoop issuing the query after the next one along with it, without
\* awaiting the first.
RunLoopEager(r, items, done, log) ==
    LET head == LoopHead(items, done)
        ahead == LoopHead(items, Append(done, Null))
    IN
    /\ key_metrics' = Set(key_metrics, r, items)
    /\ results' = Set(results, r, done)
    /\ CASE head.kind = "call" ->
              LET first == Append(log, Call("execute_polars_sql", ExecArgs(csv_file_path[r], head.sql)))
              IN /\ calls' = Set(calls, r,
                        IF ahead.kind = "call"
                        THEN Append(first, Call("execute_polars_sql",
                                                ExecArgs(csv_file_path[r], ahead.sql)))
                        ELSE first)
                 /\ pc' = Set(pc, r, "execute_sql:query")
                 /\ UNCHANGED <<ret, exc>>
         [] head.kind = "return" ->
              /\ calls' = Set(calls, r, log)
              /\ ret' = Set(ret, r, Update(<<AIMessage(Arr(done))>>))
              /\ pc' = Set(pc, r, "execute_sql:ret")
              /\ UNCHANGED exc
         [] head.kind = "raise" ->
              /\ calls' = Set(calls, r, log)
              /\ Abort(r, head.exc)
              /\ UNCHANGED ret

\* node_execute_sql from the loop head to its next await, return or raise.
RunLoop(r, items, done, log) ==
    LET head == LoopHead(items, done) IN
    /\ key_metrics' = Set(key_metrics, r, items)
    /\ results' = Set(results, r, done)
    /\ CASE head.kind = "call" ->
              /\ calls' = Set(calls, r,
                     Append(log, Call("execute_polars_sql", ExecArgs(csv_file_path[r], head.sql))))
              /\ pc' = Set(pc, r, "execute_sql:query")
              /\ UNCHANGED <<ret, exc>>
         [] head.kind = "return" ->
              /\ calls' = Set(calls, r, log)
              /\ ret' = Set(ret, r, Update(<<AIMessage(Arr(done))>>))
              /\ pc' = Set(pc, r, "execute_sql:ret")
              /\ UNCHANGED exc
         [] head.kind = "raise" ->
              /\ calls' = Set(calls, r, log)
              /\ Abort(r, head.exc)
              /\ UNCHANGED ret

\* MetricsFromContent refusing a plan without metrics.
MetricsFromContentNonEmpty(content) ==
    CHOOSE out \in
        { IF ~parsed.ok THEN Failed("ValueError: Failed to parse AIMessage content as JSON")
          ELSE IF ~IsDict(parsed.val) THEN Failed("AttributeError: no attribute get")
          ELSE LET items == IterItems(DictGet(parsed.val, "key_metrics", Arr(<<>>))) IN
               IF ~items.ok THEN Failed("TypeError: object is not iterable")
               ELSE IF items.val = <<>> THEN Failed("ValueError: no metrics")
               ELSE [ok |-> TRUE, items |-> items.val]
          : parsed \in {IF IsStr(content) THEN Loads(Tokens(content)) ELSE ParseFail} } : TRUE

\* The list iterated by the loop, from the content of the last message,
\* parsed once.
MetricsFromContent(content) ==
    CHOOSE out \in
        { IF ~parsed.ok THEN Failed("ValueError: Failed to parse AIMessage content as JSON")
          ELSE IF ~IsDict(parsed.val) THEN Failed("AttributeError: no attribute get")
          ELSE LET items == IterItems(DictGet(parsed.val, "key_metrics", Arr(<<>>))) IN
               IF ~items.ok THEN Failed("TypeError: object is not iterable")
               ELSE [ok |-> TRUE, items |-> items.val]
          : parsed \in {IF IsStr(content) THEN Loads(Tokens(content)) ELSE ParseFail} } : TRUE

\* node_execute_sql_begin reading the plan from the first request's messages,
\* as with the state kept in one module-level variable.
node_execute_sql_begin_first(r) ==
    /\ pc[r] = "executing"
    /\ started' = Set(started, r, Append(started[r], "execute_sql"))
    /\ IF "execute_polars_sql" \notin tool[r]
       THEN /\ Abort(r, "RuntimeError: coroutine raised StopIteration")
            /\ UNCHANGED <<ret, key_metrics, results, calls>>
       ELSE \E plan \in {MetricsFromContent(Last(messages[1]).content)} :
            IF plan.ok THEN \E items \in {plan.items} : RunLoop(r, items, <<>>, calls[r])
            ELSE /\ Abort(r, plan.details)
                 /\ UNCHANGED <<ret, key_metrics, results, calls>>
    /\ UNCHANGED <<active, messages, csv_file_path, tool, host>>

\* node_execute_sql up to its first await; plan and items are bound to the
\* one value each of them has.
node_execute_sql_begin(r) ==
    /\ pc[r] = "executing"
    /\ started' = Set(started, r, Append(started[r], "execute_sql"))
    /\ IF "execute_polars_sql" \notin tool[r]
       THEN /\ Abort(r, "RuntimeError: coroutine raised StopIteration")
            /\ UNCHANGED <<ret, key_metrics, results, calls>>
       ELSE \E plan \in {MetricsFromContent(Last(messages[r]).content)} :
            IF plan.ok THEN \E items \in {plan.items} : RunLoop(r, items, <<>>, calls[r])
            ELSE /\ Abort(r, plan.details)
                 /\ UNCHANGED <<ret, key_metrics, results, calls>>
    /\ UNCHANGED <<active, messages, csv_file_path, tool, host>>

\* node_execute_sql_on_data with each query isolated: a query that raised
\* leaves a record with empty data and the loop goes on.
node_execute_sql_on_data_isolated(r) ==
    /\ pc[r] = "execute_sql:query"
    /\ \E resp \in QueryResponses :
          LET m == key_metrics[r][Len(results[r]) + 1] IN
          IF ~CanRecord(m)
          THEN /\ calls' = Set(calls, r, Settle(calls[r], resp))
               /\ Abort(r, "KeyError")
               /\ UNCHANGED <<ret, key_metrics, results>>
          ELSE RunLoop(r, key_metrics[r],
                       Append(results[r], MetricRecord(m, IF resp.raised THEN Null ELSE resp.val)),
                       Settle(calls[r], resp))
    /\ UNCHANGED <<active, messages, csv_file_path, tool, started, host>>

\* exec_tool.ainvoke resumes: append the record and go round the loop.
node_execute_sql_on_data(r) ==
    /\ pc[r] = "execute_sql:query"
    /\ \E resp \in QueryResponses :
          LET m == key_metrics[r][Len(results[r]) + 1] IN
          IF resp.raised
          THEN /\ calls' = Set(calls, r, Settle(calls[r], resp))
               /\ Abort(r, "execute_polars_sql call failed")
               /\ UNCHANGED <<ret, key_metrics, results>>
          ELSE IF ~CanRecord(m)
          THEN /\ calls' = Set(calls, r, Settle(calls[r], resp))
               /\ Abort(r, "KeyError")
               /\ UNCHANGED <<ret, key_metrics, results>>
          ELSE RunLoop(r, key_metrics[r], Append(results[r], MetricRecord(m, resp.val)),
                       Settle(calls[r], resp))
    /\ UNCHANGED <<active, messages, csv_file_path, tool, started, host>>


node_execute_sql(r) == node_execute_sql_begin(r) \/ node_execute_sql_on_data(r)

\* ------------------------------------------------------- node_render_html
\* node_render_html_begin rendering the records of every request so far, as
\* with one results list kept at module level.
node_render_html_begin_shared(r) ==
    /\ pc[r] = "rendering"
    /\ started' = Set(started, r, Append(started[r], "render_html"))
    /\ calls' = Set(calls, r, Append(calls[r],
            Call("llm", LlmArgs("INSTRUCTIONS_RENDER_DASHBOARD_FROM_DATA",
                                RenderPayload(Arr(results[1] \o results[2]))))))
    /\ pc' = Set(pc, r, "render_html:llm")
    /\ UNCHANGED <<active, messages, csv_file_path, tool, ret, key_metrics, results, exc, host>>

node_render_html_begin(r) ==
    /\ pc[r] = "rendering"
    /\ started' = Set(started, r, Append(started[r], "render_html"))
    /\ calls' = Set(calls, r, Append(calls[r],
            Call("llm", LlmArgs("INSTRUCTIONS_RENDER_DASHBOARD_FROM_DATA",
                                RenderPayload(Last(messages[r]).content)))))
    /\ pc' = Set(pc, r, "render_html:llm")
    /\ UNCHANGED <<active, messages, csv_file_path, tool, ret, key_metrics, results, exc, host>>

\* llm.ainvoke resumes: whatever content came back is the message.
node_render_html_on_html(r) ==
    /\ pc[r] = "render_html:llm"
    /\ \E resp \in RenderResponses :
          IF resp.raised
          THEN /\ calls' = Set(calls, r, Settle(calls[r], resp))
               /\ Abort(r, "model call failed")
               /\ UNCHANGED ret
          ELSE /\ calls' = Set(calls, r, Settle(calls[r], resp))
               /\ ret' = Set(ret, r, Update(<<AIMessage(resp.val)>>))
               /\ pc' = Set(pc, r, "render_html:ret")
               /\ UNCHANGED exc
    /\ UNCHANGED <<active, messages, csv_file_path, tool, key_metrics, results, started, host>>


node_render_html(r) == node_render_html_begin(r) \/ node_render_html_on_html(r)

\* ------------------------------------------------------- the graph
\* The messages channel after a handler's update: the annotation's metadata
\* is the string "add_messages", which is no reducer, so the channel keeps
\* the last value written to it.
PipelineState(old, update) == update.messages

\* Edge taken only for a value with a key of the state: after node_schema's
\* error value the graph waits for an update that never comes.
EdgeStateKeysOnly(r, from, to) ==
    /\ pc[r] = from
    /\ ret[r].kind = "messages"
    /\ messages' = Set(messages, r, PipelineState(messages[r], ret[r]))
    /\ pc' = Set(pc, r, to)
    /\ UNCHANGED <<active, csv_file_path, tool, ret, key_metrics, results, calls, started,
                   exc, host>>

\* A returned value is written to the state and the edge out of `from` is
\* taken. A value without any key of the state (node_schema's error value)
\* writes nothing: the graph either goes on with the state unchanged or
\* rejects the update, as the graph library in use decides.
Edge(r, from, to) ==
    /\ pc[r] = from
    /\ \/ /\ ret[r].kind = "messages"
          /\ messages' = Set(messages, r, PipelineState(messages[r], ret[r]))
          /\ pc' = Set(pc, r, to)
          /\ UNCHANGED exc
       \/ /\ ret[r].kind = "error"
          /\ pc' = Set(pc, r, to)
          /\ UNCHANGED <<messages, exc>>
       \/ /\ ret[r].kind = "error"
          /\ Abort(r, "InvalidUpdateError")
          /\ UNCHANGED messages
    /\ UNCHANGED <<active, csv_file_path, tool, ret, key_metrics, results, calls, started, host>>

\* The edge out of schema wired to render_html.
edge_schema_to_render(r) == Edge(r, "schema:ret", "rendering")
edge_schema(r) == Edge(r, "schema:ret", "executing")
edge_execute_sql(r) == Edge(r, "execute_sql:ret", "rendering")
edge_render_html(r) == Edge(r, "render_html:ret", "done")

build_pipeline_graph(r) ==
    \/ node_schema(r) \/ edge_schema(r)
    \/ node_execute_sql(r) \/ edge_execute_sql(r)
    \/ node_render_html(r) \/ edge_render_html(r)

\* ------------------------------------------------------- the host handler
RECURSIVE LastAI(_, _)
\* next((m for m in reversed(msgs) if isinstance(m, AIMessage)), None)
LastAI(msgs, i) ==
    IF i = 0 THEN [found |-> FALSE]
    ELSE IF msgs[i].role = "ai" THEN [found |-> TRUE, msg |-> msgs[i]]
    ELSE LastAI(msgs, i - 1)

\* The html the handler ends up with from the final state's messages.
HtmlOf(msgs) ==
    LET html == Last(msgs).content
        last_ai == LastAI(msgs, Len(msgs))
    IN IF Falsy(html) /\ last_ai.found THEN last_ai.msg.content ELSE html

\* pipeline.ainvoke returned: show the html, or report that there is none.
generate_dashboard_result(r) ==
    /\ pc[r] = "done"
    /\ host[r] = NoHost
    /\ host' = Set(host, r, IF Falsy(HtmlOf(messages[r])) THEN [kind |-> "no_html"]
                            ELSE [kind |-> "html", html |-> HtmlOf(messages[r])])
    /\ UNCHANGED <<active, pc, messages, csv_file_path, tool, ret, key_metrics, results,
                   calls, started, exc>>

\* pipeline.ainvoke raised: st.error(f"Failed: {e}").
generate_dashboard_failed(r) ==
    /\ pc[r] = "failed"
    /\ host[r] = NoHost
    /\ host' = Set(host, r, [kind |-> "failed", message |-> exc[r]])
    /\ UNCHANGED <<active, pc, messages, csv_file_path, tool, ret, key_metrics, results,
                   calls, started, exc>>

generate_dashboard(r) == generate_dashboard_result(r) \/ generate_dashboard_failed(r)

\* ------------------------------------------------------- specification
\* One request.
Init == InitRuns({1}, {"a.csv"})

Next == \E r \in Runs : build_pipeline_graph(r) \/ generate_dashboard(r)

Spec == Init /\ [][Next]_vars

\* One request whose coroutines are run to completion: run_until_complete
\* resumes a handler whenever the call it awaits has answered, and every
\* pending call does answer, by returning or by raising.
Fairness ==
    \A r \in Runs : WF_vars(build_pipeline_graph(r)) /\ WF_vars(generate_dashboard(r))

SpecFair == Spec /\ Fairness

\* ------------------------------------------------------- properties
StageOrder == <<"schema", "execute_sql", "render_html">>

BetweenHandlers == {"planning", "executing", "rendering"}

\* How many handlers have started when a run stands at position p.
StartedAt(p) ==
    CASE p = "planning" -> {0}
      [] p \in {"schema:get_schema", "schema:llm", "schema:ret", "executing"} -> {1}
      [] p \in {"execute_sql:query", "execute_sql:ret", "rendering"} -> {2}
      [] p \in {"render_html:llm", "render_html:ret", "done"} -> {3}
      [] p = "failed" -> {1, 2, 3}
      [] OTHER -> {0}

StageOrderState(r) ==
    /\ Len(started[r]) \in StartedAt(pc[r])
    /\ started[r] = SubSeq(StageOrder, 1, Len(started[r]))
    /\ (exc[r] # "") = (pc[r] = "failed")

StageOrderStep(r) ==
    /\ started'[r] # started[r] =>
          /\ pc[r] \in BetweenHandlers
          /\ Len(started'[r]) = Len(started[r]) + 1
    /\ pc[r] \in {"failed", "done"} => (pc'[r] = pc[r] /\ started'[r] = started[r])

\* C1: the handlers start in the order schema, execute_sql, render_html, each at
\* most once and only once its predecessor has returned; a run whose handler
\* raised is failed, starts no further handler and never becomes done.
C1_StageOrder ==
    /\ [](\A r \in active : StageOrderState(r))
    /\ [][\A r \in active : StageOrderStep(r)]_vars

C1_Witness == pc[1] = "done" /\ started[1] = StageOrder

\* The calls of the log, by what was called.
IsSchemaCall(c) == c.fn = "get_schema"
IsQuery(c) == c.fn = "execute_polars_sql"
IsPlanCall(c) ==
    c.fn = "llm" /\ DictGet(c.args, "system", Null) = Str("INSTRUCTIONS_CSV_ANALYSIS_AND_SCHEMA")
IsRenderCall(c) ==
    c.fn = "llm" /\ DictGet(c.args, "system", Null) = Str("INSTRUCTIONS_RENDER_DASHBOARD_FROM_DATA")

Some(log, Is(_), st) == \E i \in 1..Len(log) : Is(log[i]) /\ log[i].st = st
TheCall(log, Is(_)) == log[CHOOSE i \in 1..Len(log) : Is(log[i])]

\* C2: once the model has answered the schema-analysis call with empty
\* content, neither node_execute_sql nor node_render_html is started.
C2_EmptyAnalysisStopsRun ==
    \A r \in active :
        (\E i \in 1..Len(calls[r]) :
            IsPlanCall(calls[r][i]) /\ calls[r][i].st = "returned" /\ Falsy(calls[r][i].out))
        => started[r] = <<"schema">>

\* What a get_schema answer w holds at position i once a str item is decoded.
Decoded(w, i) == IF IsStr(w.v[i]) THEN Loads(Tokens(w.v[i])) ELSE [ok |-> TRUE, val |-> w.v[i]]
Unparseable(w) == ~IsList(w) \/ \E i \in 1..Len(w.v) : ~Decoded(w, i).ok
LacksColumnKeys(w) ==
    \E i \in 1..Len(w.v) : i <= 2 /\ ~IsColumn(Decoded(w, i).val)
BadSchema(w) == Unparseable(w) \/ w.v = <<>> \/ LacksColumnKeys(w)

HasField(x, k) == IsDict(x) /\ HasKey(x.v, k)
\* content is JSON for an object with both required keys.
CompleteAnalysis(content) ==
    /\ IsStr(content)
    /\ Loads(Tokens(content)).ok
    /\ HasField(Loads(Tokens(content)).val, "key_metrics")
    /\ HasField(Loads(Tokens(content)).val, "dashboard_components")

\* One of the failures of the planner stage has occurred in run r.
PlannerFailure(r) ==
    \/ "get_schema" \notin tool[r]
    \/ Some(calls[r], IsSchemaCall, "raised")
    \/ Some(calls[r], IsSchemaCall, "returned") /\ BadSchema(TheCall(calls[r], IsSchemaCall).out)
    \/ Some(calls[r], IsPlanCall, "raised")
    \/ /\ Some(calls[r], IsPlanCall, "returned")
       /\ \/ Falsy(TheCall(calls[r], IsPlanCall).out)
          \/ ~CompleteAnalysis(TheCall(calls[r], IsPlanCall).out)

PlannerReturned(r) == started[r] = <<"schema">> /\ pc[r] \in {"schema:ret", "executing", "failed"}

\* C3: node_schema never raises; after any of its failures it has returned the
\* error value with error "node_schema_failed" and a details string, and the
\* messages still end with the question, not with a plan.
C3_PlannerNeverRaises ==
    \A r \in active :
        /\ (pc[r] = "failed" /\ started[r] = <<"schema">>) => exc[r] = "InvalidUpdateError"
        /\ (PlannerReturned(r) /\ PlannerFailure(r)) =>
              /\ ret[r].kind = "error"
              /\ ret[r].error = "node_schema_failed"
              /\ ret[r].details # ""
              /\ Len(messages[r]) = 1 /\ Last(messages[r]).role = "human"

C3_Witness ==
    /\ pc[1] = "executing" /\ started[1] = <<"schema">>
    /\ Some(calls[1], IsPlanCall, "raised")
    /\ ret[1].kind = "error"

\* content is JSON for an object whose key_metrics is a list.
PlanShaped(content) ==
    /\ IsStr(content)
    /\ LET parsed == Loads(Tokens(content)) IN
       /\ parsed.ok
       /\ HasField(parsed.val, "key_metrics")
       /\ IsList(DictGet(parsed.val, "key_metrics", Null))

\* C4: node_execute_sql gets past its parsing step (issues a query or returns)
\* only when the last message is JSON with a key_metrics list.
C4_MalformedPlanFails ==
    \A r \in active :
        pc[r] \in {"execute_sql:query", "execute_sql:ret"}
        => PlanShaped(Last(messages[r]).content)

Queries(r) == SelectSeq(calls[r], IsQuery)
PlanOf(r) == DictGet(Loads(Tokens(Last(messages[r]).content)).val, "key_metrics", Null).v
Field(x, k) == DictGet(x, k, Null)

MetricFields == {"metric", "description", "visualization_type", "sql"}
WellFormedMetric(m) == IsDict(m) /\ \A k \in MetricFields : HasKey(m.v, k)

\* The tool returned no rows: None or an empty list.
NoRows(out) == out.t = "null" \/ (IsList(out) /\ out.v = <<>>)

\* Record rec is plan entry m with the rows query q returned.
RecordMatches(rec, m, q) ==
    /\ Field(rec, "metric") = Field(m, "metric")
    /\ Field(rec, "description") = Field(m, "description")
    /\ Field(rec, "visualization_type") = Field(m, "visualization_type")
    /\ Field(q.args, "query") = Field(m, "sql")
    /\ q.st = "returned"
    /\ Field(rec, "data") = (IF NoRows(q.out) THEN Arr(<<>>) ELSE q.out)

\* C5: node_execute_sql, given a plan of N metrics, returns exactly N records
\* in plan order, record i carrying metric i's metric, description and
\* visualization_type and the rows returned for metric i's sql (none: the
\* empty list); given well-formed metrics it fails only when a query raises.
C5_OneRecordPerMetric ==
    \A r \in active :
        (pc[r] \in {"execute_sql:ret", "failed"} /\ PlanShaped(Last(messages[r]).content)) =>
            LET plan == PlanOf(r) IN
            /\ pc[r] = "execute_sql:ret" =>
                  LET recs == ret[r].messages[1].content.v IN
                  /\ Len(ret[r].messages) = 1
                  /\ Len(recs) = Len(plan)
                  /\ Len(Queries(r)) = Len(plan)
                  /\ \A i \in 1..Len(recs) : RecordMatches(recs[i], plan[i], Queries(r)[i])
            /\ ( /\ pc[r] = "failed" /\ started[r] = <<"schema", "execute_sql">>
                 /\ "execute_polars_sql" \in tool[r]
                 /\ \A i \in 1..Len(plan) : WellFormedMetric(plan[i]) )
              => (Queries(r) # <<>> /\ Last(Queries(r)).st = "raised")

C5_Witness ==
    /\ pc[1] = "execute_sql:ret"
    /\ PlanShaped(Last(messages[1]).content)
    /\ Len(PlanOf(1)) = 2
    /\ PlanOf(1)[1] # PlanOf(1)[2]
    /\ Field(ret[1].messages[1].content.v[1], "data") = Arr(<<Row>>)
    /\ Queries(1)[2].out = Arr(<<>>)

\* The last message is still what node_execute_sql received, and the value
\* last returned is node_schema's.
NoRecordsHandedOff(r) ==
    /\ IsStr(Last(messages[r]).content)
    /\ ret[r].kind = "messages" => IsStr(ret[r].messages[1].content)

\* C6: when a query raises, or the execute tool is not bound, the run is
\* failed at once: that call is the last external call of the run, no records
\* are handed off and node_render_html is never started.
C6_QueryFailureAbortsRun ==
    \A r \in active :
        ( \/ Some(calls[r], IsQuery, "raised")
          \/ ("execute_sql" \in {started[r][i] : i \in 1..Len(started[r])}
                /\ "execute_polars_sql" \notin tool[r]) )
        => /\ pc[r] = "failed"
           /\ started[r] = <<"schema", "execute_sql">>
           /\ Some(calls[r], IsQuery, "raised") => (IsQuery(Last(calls[r])) /\ Last(calls[r]).st = "raised")
           /\ "execute_polars_sql" \notin tool[r] => Queries(r) = <<>>
           /\ NoRecordsHandedOff(r)

C6_Witness ==
    /\ pc[1] = "failed"
    /\ Len(Queries(1)) = 2
    /\ Queries(1)[1].st = "returned" /\ Queries(1)[1].out = Arr(<<Row>>)
    /\ Queries(1)[2].st = "raised"
    /\ Len(key_metrics[1]) = 2

\* C7: a run whose render call returned empty content does not get past
\* node_render_html: it never returns a message and the run never is done.
C7_EmptyRenderFails ==
    \A r \in active :
        (\E i \in 1..Len(calls[r]) :
            IsRenderCall(calls[r][i]) /\ calls[r][i].st = "returned" /\ Falsy(calls[r][i].out))
        => pc[r] \notin {"render_html:ret", "done"}

\* C8: a stage's message is added after the messages it received: after a
\* successful node_schema there are two messages, in a run that is done
\* there are four, and the first is the question.
C8_MessagesGrowByOne ==
    \A r \in active :
        /\ (pc[r] = "executing" /\ ret[r].kind = "messages") =>
              (Len(messages[r]) = 2 /\ messages[r][1].role = "human")
        /\ (pc[r] = "done" /\ Some(calls[r], IsPlanCall, "returned")
              /\ CompleteAnalysis(TheCall(calls[r], IsPlanCall).out)) =>
              (Len(messages[r]) = 4 /\ messages[r][1].role = "human")

\* C9: the plan node_schema hands off has key_metrics and
\* dashboard_components, and its key_metrics is not empty.
C9_PlanHasMetrics ==
    \A r \in active :
        (pc[r] = "schema:ret" /\ ret[r].kind = "messages") =>
            LET content == ret[r].messages[1].content IN
            /\ CompleteAnalysis(content)
            /\ ~Falsy(DictGet(Loads(Tokens(content)).val, "key_metrics", Null))

\* The schema checks pass on the get_schema answer w.
GoodSchema(w) == w.v # <<>> /\ ~LacksColumnKeys(w)

\* The planner's success condition in run r, whose get_schema answer decodes.
PlannerShouldSucceed(r) ==
    /\ GoodSchema(TheCall(calls[r], IsSchemaCall).out)
    /\ Some(calls[r], IsPlanCall, "returned")
    /\ ~Falsy(TheCall(calls[r], IsPlanCall).out)
    /\ CompleteAnalysis(TheCall(calls[r], IsPlanCall).out)

\* The get_schema call of run r returned an answer that decodes.
SchemaDecoded(r) ==
    /\ Some(calls[r], IsSchemaCall, "returned")
    /\ ~Unparseable(TheCall(calls[r], IsSchemaCall).out)

\* node_schema alone: it succeeds exactly on its success condition, and makes
\* no schema-analysis call when the schema checks fail.
PlannerOutcome ==
    \A r \in active :
        SchemaDecoded(r) =>
            /\ pc[r] = "schema:ret" => ((ret[r].kind = "messages") = PlannerShouldSucceed(r))
            /\ ~GoodSchema(TheCall(calls[r], IsSchemaCall).out) =>
                  \A i \in 1..Len(calls[r]) : ~IsPlanCall(calls[r][i])

\* C10: with a get_schema answer that decodes, node_schema succeeds exactly
\* when the schema is non-empty, its first two entries are columns, and the
\* model's content is non-empty JSON for an object with both required keys;
\* when the schema checks fail the model is not called in the run at all.
C10_PlannerSucceedsIff ==
    /\ PlannerOutcome
    /\ \A r \in active :
          (SchemaDecoded(r) /\ ~GoodSchema(TheCall(calls[r], IsSchemaCall).out)) =>
              \A i \in 1..Len(calls[r]) : calls[r][i].fn # "llm"

\* The answer a settled call got.
Resp(c) == IF c.st = "raised" THEN Raise ELSE Return(c.out)

\* What node_schema returned in run r, told from the answers its calls got.
PlannerResult(r) ==
    IF "get_schema" \notin tool[r] THEN Failed("get_schema tool not found")
    ELSE LET payload == PayloadFromSchema(Resp(TheCall(calls[r], IsSchemaCall)), Null) IN
         IF ~payload.ok THEN payload
         ELSE IF Some(calls[r], IsPlanCall, "raised") THEN Failed("model call failed")
         ELSE PlanFromContent(TheCall(calls[r], IsPlanCall).out)

\* node_schema has returned in run r.
PlannerDone(r) == started[r] # <<>> /\ pc[r] \notin {"schema:get_schema", "schema:llm"}

\* ------------------------------------------------------- two requests
\* The stubs are deterministic: the same call gets the same answer, whichever
\* request makes it.
DeterministicStubs ==
    \A r, s \in active : \A i \in 1..Len(calls[r]) : \A j \in 1..Len(calls[s]) :
        ( /\ calls[r][i].fn = calls[s][j].fn /\ calls[r][i].args = calls[s][j].args
          /\ calls[r][i].st # "pending" /\ calls[s][j].st # "pending" )
        => calls[r][i] = calls[s][j]

\* The graph went on from node_schema's error value in request r.
ErrorIgnored(r) ==
    /\ PlannerDone(r) /\ ~PlannerResult(r).ok
    /\ pc[r] = "executing" \/ Len(started[r]) >= 2

\* One process has one graph library: a step of request r out of schema with
\* node_schema's error value rejects it only if no request had it ignored,
\* and ignores it only if no request had it rejected.
OneLibrary(r) ==
    (pc[r] = "schema:ret" /\ ret[r].kind = "error") =>
        /\ pc'[r] = "failed" => ~ \E s \in active : ErrorIgnored(s)
        /\ pc'[r] = "executing" => ~ \E s \in active : exc[s] = "InvalidUpdateError"

\* Two requests for the same file with the same question.
InitSame ==
    /\ InitRuns({1, 2}, {"a.csv"})
    /\ messages[1] = messages[2]

NextSame ==
    \E r \in Runs :
        /\ build_pipeline_graph(r) \/ generate_dashboard(r)
        /\ DeterministicStubs'
        /\ OneLibrary(r)

SpecSame == InitSame /\ [][NextSame]_vars

\* Two requests at once, each with its own file and its own question, sharing
\* the tool bindings.
InitTwo ==
    /\ InitRuns({1, 2}, {"a.csv", "b.csv"})
    /\ csv_file_path[1] = "a.csv" /\ csv_file_path[2] = "b.csv"
    /\ messages[1] # messages[2]

NextTwo ==
    \E r \in Runs :
        /\ build_pipeline_graph(r) \/ generate_dashboard(r)
        /\ OneLibrary(r)

SpecTwo == InitTwo /\ [][NextTwo]_vars

\* ------------------------------------------------------- properties, continued
\* C11: once the host has shown the outcome of a run whose planner failed,
\* what it shows is the planner's error: the failure with the details string
\* node_schema returned.
C11_PlannerErrorReachesHost ==
    \A r \in active :
        (host[r] # NoHost /\ PlannerDone(r) /\ ~PlannerResult(r).ok) =>
            /\ host[r].kind = "failed"
            /\ host[r].message = PlannerResult(r).details

\* The dataset location a call to a dataset tool was given.
LocationOf(c) ==
    IF IsSchemaCall(c) THEN <<Field(c.args, "file_location")>>
    ELSE Field(c.args, "file_locations").v

\* C12: no step of a run changes its csv_file_path or its tool, whether the
\* step is a handler returning, raising or the host showing the outcome, and
\* every get_schema and execute_polars_sql call of the run was given exactly
\* the run's csv_file_path.
C12_PathAndToolFrame ==
    /\ [][csv_file_path' = csv_file_path /\ tool' = tool]_vars
    /\ [](\A r \in active : \A i \in 1..Len(calls[r]) :
            (IsSchemaCall(calls[r][i]) \/ IsQuery(calls[r][i])) =>
                LocationOf(calls[r][i]) = <<Str(csv_file_path[r])>>)

C12_Witness ==
    /\ host[1] # NoHost
    /\ Some(calls[1], IsSchemaCall, "returned")
    /\ Len(Queries(1)) = 2
    /\ \A i \in 1..2 : LocationOf(Queries(1)[i]) = <<Str(csv_file_path[1])>>

\* The run stands inside an await of an external call.
Awaiting(p) == p \in {"schema:get_schema", "schema:llm", "execute_sql:query", "render_html:llm"}

\* The queries of the log are those of the first Len(queries) entries of the
\* iterated plan, in its order.
InPlanOrder(queries, items) ==
    /\ Len(queries) <= Len(items)
    /\ \A i \in 1..Len(queries) : Field(queries[i].args, "query") = Subscript(items[i], "sql").val

\* C13: a run has at most one pending external call, and it is the last call
\* made: every earlier call was settled when the next was issued, and the run
\* is inside an await exactly while that call is pending. The queries follow
\* the plan's order, query i+1 issued only once query i has returned.
C13_OneCallAtATime ==
    \A r \in active :
        /\ \A i \in 1..Len(calls[r]) :
              (calls[r][i].st = "pending") = (i = Len(calls[r]) /\ Awaiting(pc[r]))
        /\ \A i \in 1..Len(Queries(r)) : i < Len(Queries(r)) => Queries(r)[i].st = "returned"
        /\ InPlanOrder(Queries(r), key_metrics[r])

C13_Witness ==
    /\ pc[1] = "execute_sql:query"
    /\ Len(Queries(1)) = 2
    /\ Queries(1)[1].st = "returned" /\ Queries(1)[2].st = "pending"
    /\ Field(Queries(1)[1].args, "query") # Field(Queries(1)[2].args, "query")

\* How many calls of one kind a log holds.
Count(log, Is(_)) == Len(SelectSeq(log, Is))

\* Each external call of run r was made at most once, a query at most once
\* per entry of the plan, and a call that raised is not made again.
AtMostOnce(r) ==
    /\ Count(calls[r], IsSchemaCall) <= 1
    /\ Count(calls[r], IsPlanCall) <= 1
    /\ Count(calls[r], IsRenderCall) <= 1
    /\ InPlanOrder(Queries(r), key_metrics[r])
    /\ \A i, j \in 1..Len(calls[r]) :
          (i < j /\ calls[r][i].st = "raised") =>
              ~(calls[r][j].fn = calls[r][i].fn /\ calls[r][j].args = calls[r][i].args)

\* C14: no external call is made twice and none is made again after it
\* failed; in a run that is done get_schema, the schema-analysis call and the
\* render call were each made exactly once, and one query per plan metric.
C14_EachCallOnce ==
    \A r \in active :
        /\ AtMostOnce(r)
        /\ pc[r] = "done" =>
              /\ Count(calls[r], IsSchemaCall) = 1
              /\ Count(calls[r], IsPlanCall) = 1
              /\ Count(calls[r], IsRenderCall) = 1
              /\ Len(Queries(r)) = Len(key_metrics[r])

\* The sql strings of the plan text node_schema handed off in run r; none
\* when node_schema failed.
HandedOffSql(r) ==
    IF ~PlannerResult(r).ok THEN {}
    ELSE LET items == MetricsFromContent(PlannerResult(r).text) IN
         IF ~items.ok THEN {}
         ELSE {Subscript(items.items[i], "sql").val :
                  i \in {j \in 1..Len(items.items) : Subscript(items.items[j], "sql").ok}}

\* C15: every query given to execute_polars_sql is the sql of an entry of the
\* plan node_schema handed off in that run: none is issued before node_schema
\* has returned, and none at all in a run whose node_schema failed, whatever
\* the question holds.
C15_QueriesComeFromPlan ==
    \A r \in active :
        /\ ~PlannerDone(r) => Queries(r) = <<>>
        /\ PlannerDone(r) =>
              \A i \in 1..Len(Queries(r)) : Field(Queries(r)[i].args, "query") \in HandedOffSql(r)

\* What the model answered to the schema-analysis call of run r, parsed.
Analysis(r) == Loads(Tokens(TheCall(calls[r], IsPlanCall).out)).val

\* The text is JSON for an object with exactly the fields key_metrics and
\* dashboard_components, in this order, holding the analysis' values.
IsMinimalSpecOf(text, analysis) ==
    /\ IsStr(text)
    /\ LET parsed == Loads(Tokens(text)) IN
       /\ parsed.ok
       /\ IsDict(parsed.val)
       /\ KeysOf(parsed.val.v, 1) = <<Str("key_metrics"), Str("dashboard_components")>>
       /\ \A k \in {"key_metrics", "dashboard_components"} :
             Field(parsed.val, k) = Field(analysis, k)

\* C16: the message a successful node_schema returns is JSON for exactly
\* key_metrics and dashboard_components with the values of the model's parsed
\* answer, domain and any other field left out; and the entries
\* node_execute_sql iterates are the analysis' key_metrics in their order.
C16_HandOffIsMinimalSpec ==
    \A r \in active :
        /\ (pc[r] = "schema:ret" /\ ret[r].kind = "messages") =>
              /\ Len(ret[r].messages) = 1
              /\ IsMinimalSpecOf(ret[r].messages[1].content, Analysis(r))
        /\ (pc[r] \in {"execute_sql:query", "execute_sql:ret"} /\ PlannerResult(r).ok) =>
              LET planned == Field(Analysis(r), "key_metrics") IN
              IsList(planned) => key_metrics[r] = planned.v

C16_Witness ==
    /\ pc[1] = "execute_sql:query"
    /\ PlannerResult(1).ok
    /\ HasField(Analysis(1), "domain")
    /\ Len(key_metrics[1]) = 2
    /\ key_metrics[1][1] # key_metrics[1][2]

\* The text has "key_metrics": [] somewhere, as the JSON of an object whose
\* key_metrics is the empty list must.
MentionsNoMetrics(text) ==
    /\ text.t = "text"
    /\ \E i \in 1..Len(text.v) :
          /\ i + 3 <= Len(text.v)
          /\ text.v[i] = TokS("key_metrics") /\ text.v[i + 1] = TokP(":")
          /\ text.v[i + 2] = TokP("[") /\ text.v[i + 3] = TokP("]")

\* node_schema handed off a plan whose key_metrics is the empty list, and the
\* graph has taken the edge out of schema.
ZeroMetricPlan(r) ==
    /\ PlannerDone(r) /\ pc[r] # "schema:ret"
    /\ Some(calls[r], IsPlanCall, "returned")
    /\ MentionsNoMetrics(TheCall(calls[r], IsPlanCall).out)
    /\ LET parsed == Loads(Tokens(TheCall(calls[r], IsPlanCall).out)) IN
       /\ parsed.ok /\ IsDict(parsed.val)
       /\ Field(parsed.val, "key_metrics") = Arr(<<>>)
    /\ PlannerResult(r).ok

\* What a render call gave the model as its user turn, parsed.
RenderInput(c) == Loads(Tokens(Field(c.args, "user"))).val

\* C17: in a run with a zero-metric plan node_execute_sql issues no query and
\* returns the empty list of records, node_render_html calls the model once
\* with {"metrics": []}, and once the model has answered the run goes on to
\* done. The run fails only when execute_polars_sql is not bound or the
\* render call itself raises, never because the plan is empty.
C17_ZeroMetricsRenders ==
    \A r \in active :
        ZeroMetricPlan(r) =>
            /\ Queries(r) = <<>>
            /\ pc[r] \in {"executing", "execute_sql:ret", "rendering", "render_html:llm",
                          "render_html:ret", "done", "failed"}
            /\ pc[r] = "execute_sql:ret" => ret[r] = Update(<<AIMessage(Arr(<<>>))>>)
            /\ pc[r] = "rendering" => messages[r] = <<AIMessage(Arr(<<>>))>>
            /\ Count(calls[r], IsRenderCall) <= 1
            /\ pc[r] \in {"render_html:llm", "render_html:ret", "done"} =>
                  /\ Count(calls[r], IsRenderCall) = 1
                  /\ RenderInput(Last(calls[r])) = Obj(<< <<"metrics", Arr(<<>>)>> >>)
            /\ Some(calls[r], IsRenderCall, "returned") => pc[r] \in {"render_html:ret", "done"}
            /\ pc[r] = "failed" =>
                  \/ "execute_polars_sql" \notin tool[r] /\ started[r] = <<"schema", "execute_sql">>
                  \/ Some(calls[r], IsRenderCall, "raised")

C17_Witness ==
    /\ ZeroMetricPlan(1)
    /\ pc[1] = "done"
    /\ Count(calls[1], IsRenderCall) = 1
    /\ RenderInput(Last(calls[1])) = Obj(<< <<"metrics", Arr(<<>>)>> >>)

\* The render call of run r.
RenderCall(r) == TheCall(calls[r], IsRenderCall)

\* The final message of a done run is what the render call returned, and the
\* render call was given {"metrics": R}, R the records node_execute_sql
\* returned.
RenderPassesThrough(r) ==
    /\ pc[r] = "done" => Last(messages[r]).content = RenderCall(r).out
    /\ \A i \in 1..Len(calls[r]) :
          IsRenderCall(calls[r][i]) =>
              RenderInput(calls[r][i]) = Obj(<< <<"metrics", Arr(results[r])>> >>)

\* C18: in a done run the final message's content is exactly what the model
\* returned to the render call, and that string is what the host displays;
\* the render call's input is {"metrics": R} with R the records
\* node_execute_sql handed off.
C18_RenderedStringDisplayed ==
    \A r \in active :
        /\ RenderPassesThrough(r)
        /\ (pc[r] = "done" /\ host[r] # NoHost) =>
              host[r] = [kind |-> "html", html |-> RenderCall(r).out]

Min(a, b) == IF a < b THEN a ELSE b

\* Two sequences agree as far as both go.
Agree(p, q) == \A i \in 1..Min(Len(p), Len(q)) : p[i] = q[i]

\* Two call logs agree as far as both go: the same calls with the same
\* arguments in the same order, and the same answers where both are settled.
SameCalls(p, q) ==
    \A i \in 1..Min(Len(p), Len(q)) :
        /\ p[i].fn = q[i].fn /\ p[i].args = q[i].args
        /\ (p[i].st # "pending" /\ q[i].st # "pending") => p[i] = q[i]

\* Everything request r holds but its place in the host.
RunState(r) ==
    <<pc[r], messages[r], csv_file_path[r], tool[r], ret[r], key_metrics[r], results[r],
      calls[r], started[r], exc[r]>>

Ended(r) == pc[r] \in {"done", "failed"}

\* C19: two requests with the same file, question and deterministic stubs go
\* through the same handler starts and the same external calls in the same
\* order; at the same step they are in the same state, and once both have
\* ended they have the same records and the same outcome, also on the host.
C19_Deterministic ==
    /\ Agree(started[1], started[2])
    /\ SameCalls(calls[1], calls[2])
    /\ (pc[1] = pc[2] /\ Len(calls[1]) = Len(calls[2])) => RunState(1) = RunState(2)
    /\ (Ended(1) /\ Ended(2)) => RunState(1) = RunState(2)
    /\ (host[1] # NoHost /\ host[2] # NoHost) => host[1] = host[2]

C19_Witness ==
    /\ pc[1] = "done" /\ pc[2] = "done"
    /\ host[1] # NoHost /\ host[2] # NoHost
    /\ Len(results[1]) = 2 /\ results[2] = results[1]
    /\ Len(SelectSeq(calls[2], IsQuery)) = 2

\* The question a schema-analysis call gave the model.
QuestionGiven(c) == Field(Loads(Tokens(Field(c.args, "user"))).val, "question")

\* What the host shows for request r, told from r's own final state.
OwnOutcome(r) ==
    IF pc[r] = "failed" THEN [kind |-> "failed", message |-> exc[r]]
    ELSE IF Falsy(HtmlOf(messages[r])) THEN [kind |-> "no_html"]
    ELSE [kind |-> "html", html |-> HtmlOf(messages[r])]

\* Everything request r has called, iterated, recorded and shown comes from
\* r's own file, messages and answers.
OwnDataOnly(r) ==
    /\ \A i \in 1..Len(calls[r]) :
          (IsSchemaCall(calls[r][i]) \/ IsQuery(calls[r][i])) =>
              LocationOf(calls[r][i]) = <<Str(csv_file_path[r])>>
    /\ pc[r] = "schema:llm" => QuestionGiven(Last(calls[r])) = Last(messages[r]).content
    /\ pc[r] \in {"execute_sql:query", "execute_sql:ret"} =>
          /\ MetricsFromContent(Last(messages[r]).content).ok
          /\ key_metrics[r] = MetricsFromContent(Last(messages[r]).content).items
          /\ InPlanOrder(Queries(r), key_metrics[r])
          /\ \A i \in 1..Len(results[r]) :
                RecordMatches(results[r][i], key_metrics[r][i], Queries(r)[i])
    /\ RenderPassesThrough(r)
    /\ host[r] # NoHost => host[r] = OwnOutcome(r)

\* The step leaves everything of request s as it is.
Untouched(s) == RunState(s)' = RunState(s) /\ host'[s] = host[s]

\* C20: with two requests in flight in any interleaving, every step changes
\* the state of one request only, and what each request calls, records and
\* shows is told by its own file, messages and answers alone.
C20_RequestsIsolated ==
    /\ [][\E r \in Runs : \A s \in Runs \ {r} : Untouched(s)]_vars
    /\ [](\A r \in active : OwnDataOnly(r))

C20_Witness ==
    /\ pc[1] = "done" /\ host[1] # NoHost /\ Len(results[1]) = 2
    /\ pc[2] = "execute_sql:query" /\ Len(results[2]) = 1
    /\ Last(messages[1]) # Last(messages[2])

\* The step starts no stage, takes no edge and makes or settles no call of r.
Halted(r) == pc'[r] = pc[r] /\ started'[r] = started[r] /\ calls'[r] = calls[r]

\* C21: with every pending call answered in the end, a started run reaches
\* done or failed, and from then on it makes no stage transition and no
\* external call.
C21_EveryRunTerminates ==
    /\ \A r \in Runs : (pc[r] # "off") ~> Ended(r)
    /\ [][\A r \in Runs : Ended(r) => Halted(r)]_vars

C21_Witness ==
    /\ pc[1] = "done" /\ host[1] # NoHost
    /\ started[1] = StageOrder /\ Len(Queries(1)) = MaxMetrics
    /\ \A i \in 1..Len(calls[1]) : calls[1][i].st = "returned"
====
